---- MODULE Spec2Model ----
(***************************************************************************)
(* Model of src/QueueSim.py: the M/M/m/K queue simulation.                 *)
(*                                                                         *)
(* Times are integers (the code uses floats; only order and addition      *)
(* matter to the event engine).  Customer indices, heap positions and log *)
(* indices are 0-based as in the Python source; At/Put translate to the   *)
(* 1-based sequences of TLA+.                                              *)
(***************************************************************************)
EXTENDS Integers, Sequences, FiniteSets, TLC

\* ---------------------------------------------------------------- bounds
MaxTLim    == 4   \* t_lim is drawn from 1..MaxTLim
MaxDur     == 2   \* service durations are drawn from 0..MaxDur
MaxServers == 2   \* nservers is drawn from 0..MaxServers
MaxCap     == 2   \* capacity is drawn from 0..MaxCap
MaxRecord  == 2   \* max_record is drawn from 1..MaxRecord
\* The event engine on a given trace (EngineSpec):
EngineArrivals == 3   \* arrival times are drawn from 1..EngineArrivals
EngineDur      == 3   \* service durations are drawn from 0..EngineDur
EngineServers  == 3   \* nservers is drawn from 1..EngineServers

VARIABLES
    pc,               \* position in main(): "pregen", "hstack", "init", "sim", "exited",
                      \* "done" (write_stats returned), "raised"
    exc,              \* the exception that ended the run ("" while none)
    nservers, capacity, t_lim, max_record,      \* QueueSim.__init__
    tclock, arrival_times, narrivals, service_times,   \* QueueSim.pregen
    departure_times, t, states, balk, balkEventMask,   \* statistics arrays of sim()
    idx_next_arrival, service_pq, line_pq, event_no,   \* simulation state of sim()
    cum_state, t_total, wait,                          \* what write_stats computes
    entered,          \* history: customers that were moved from the line into service
    departed          \* history: customers whose Departure event was processed

vars == <<pc, exc, nservers, capacity, t_lim, max_record, tclock, arrival_times,
          narrivals, service_times, departure_times, t, states, balk, balkEventMask,
          idx_next_arrival, service_pq, line_pq, event_no, cum_state, t_total, wait,
          entered, departed>>

cfgvars   == <<nservers, capacity, t_lim, max_record>>
tracevars == <<tclock, arrival_times, narrivals, service_times>>
statvars  == <<departure_times, t, states, balk, balkEventMask>>
simvars   == <<idx_next_arrival, service_pq, line_pq, event_no, entered, departed>>
outvars   == <<cum_state, t_total, wait>>

\* ------------------------------------------------------- 0-based indexing
At(s, i)     == s[i + 1]
Put(s, i, v) == [s EXCEPT ![i + 1] = v]
zeros(n)     == [k \in 1..n |-> 0]
falses(n)    == [k \in 1..n |-> FALSE]

\* ------------------------------------------------------------ Event class
Event(time, idx, cls) == [t |-> time, customer_idx |-> idx, kind |-> cls]
Arrival(time, idx)    == Event(time, idx, "Arrival")
Departure(time, idx)  == Event(time, idx, "Departure")

\* Mutant of lt: the order of events is reversed.
lt_reversed(a, b) == a.t > b.t

\* Event.__lt__: events are ordered by time alone
lt(a, b) == a.t < b.t

\* --------------------------------------------------- heapq (as the code uses it)
RECURSIVE siftdown_from(_, _, _, _)
siftdown_from(heap, startpos, pos, newitem) ==
    IF pos > startpos
    THEN LET parentpos == (pos - 1) \div 2
             parent    == At(heap, parentpos)
         IN  IF lt(newitem, parent)
             THEN siftdown_from(Put(heap, pos, parent), startpos, parentpos, newitem)
             ELSE Put(heap, pos, newitem)
    ELSE Put(heap, pos, newitem)

siftdown(heap, startpos, pos) == siftdown_from(heap, startpos, pos, At(heap, pos))

RECURSIVE siftup_from(_, _, _, _)
siftup_from(heap, startpos, pos, newitem) ==
    LET endpos   == Len(heap)
        childpos == 2 * pos + 1
    IN  IF childpos < endpos
        THEN LET rightpos == childpos + 1
                 c == IF rightpos < endpos /\ ~lt(At(heap, childpos), At(heap, rightpos))
                      THEN rightpos ELSE childpos
             IN  siftup_from(Put(heap, pos, At(heap, c)), startpos, c, newitem)
        ELSE siftdown(Put(heap, pos, newitem), startpos, pos)

siftup(heap, pos) == siftup_from(heap, pos, pos, At(heap, pos))

heappush(heap, item) == siftdown(Append(heap, item), 0, Len(heap))

\* heappop returns the smallest item; heappop_rest is the heap it leaves
heappop_item(heap) == heap[1]
heappop_rest(heap) ==
    LET lastelt == heap[Len(heap)]
        rest    == SubSeq(heap, 1, Len(heap) - 1)
    IN  IF rest # <<>> THEN siftup(Put(rest, 0, lastelt), 0) ELSE rest

\* ------------------------------------------------------------------ Init
\* QueueSim.__init__ has stored the parameters; nothing is generated yet.
Init ==
    /\ pc = "pregen"
    /\ exc = ""
    /\ nservers \in 0..MaxServers
    /\ capacity \in 0..MaxCap
    /\ t_lim \in 1..MaxTLim
    /\ max_record \in 1..MaxRecord
    /\ tclock = 0
    /\ arrival_times = <<>>
    /\ narrivals = 0
    /\ service_times = <<>>
    /\ departure_times = <<>>
    /\ t = <<>>
    /\ states = <<>>
    /\ balk = <<>>
    /\ balkEventMask = <<>>
    /\ idx_next_arrival = 0
    /\ service_pq = <<>>
    /\ line_pq = <<>>
    /\ event_no = 0
    /\ cum_state = <<>>
    /\ t_total = 0
    /\ wait = <<>>
    /\ entered = {}
    /\ departed = {}

\* ---------------------------------------------------------------- pregen
\* One pass of the `while True` loop: draw a gap, append the time or break.
\* A gap of t_lim or more always breaks, so 1..t_lim covers every outcome.
pregen_draw ==
    /\ pc = "pregen"
    /\ \E gap \in 1..t_lim :
         LET t2 == tclock + gap
         IN  /\ tclock' = t2
             /\ IF t2 < t_lim
                THEN /\ arrival_times' = Append(arrival_times, t2)
                     /\ pc' = "pregen"
                ELSE /\ arrival_times' = arrival_times
                     /\ pc' = "hstack"
    /\ UNCHANGED <<exc, cfgvars, narrivals, service_times, statvars, simvars, outvars>>

\* np.hstack raises ValueError on an empty list; otherwise the service
\* durations are drawn, one per arrival.
pregen_finish ==
    /\ pc = "hstack"
    /\ IF arrival_times = <<>>
       THEN /\ pc' = "raised"
            /\ exc' = "ValueError"
            /\ UNCHANGED <<narrivals, service_times>>
       ELSE /\ pc' = "init"
            /\ exc' = exc
            /\ narrivals' = Len(arrival_times)
            /\ service_times' \in [1..Len(arrival_times) -> 0..MaxDur]
    /\ UNCHANGED <<cfgvars, tclock, arrival_times, statvars, simvars, outvars>>

\* ------------------------------------------------------------------- sim
\* The statistics arrays and the simulation state, before the loop.
sim_init ==
    /\ pc = "init"
    /\ pc' = "sim"
    /\ departure_times' = zeros(narrivals)
    /\ t' = zeros(2 * narrivals)
    /\ states' = zeros(2 * narrivals)
    /\ balk' = falses(narrivals)
    /\ balkEventMask' = falses(2 * narrivals)
    /\ idx_next_arrival' = 0
    /\ service_pq' = <<>>
    /\ line_pq' = <<>>
    /\ event_no' = 0
    /\ UNCHANGED <<exc, cfgvars, tracevars, outvars, entered, departed>>

\* Mutant of loop_guard: the log is taken to be one slot shorter.
loop_guard_short == event_no < 2 * narrivals - 1

\* The loop guard of `while self.event_no < 2 * self.narrivals`
loop_guard == event_no < 2 * narrivals

has_arrival == idx_next_arrival < narrivals

\* Mutant of arrival_first: the departure takes precedence on a tie.
arrival_first_strict(t_next_arrival, t_next_departure) == t_next_arrival < t_next_departure

\* `t_next_arrival <= t_next_departure`: the arrival takes precedence on a tie
arrival_first(t_next_arrival, t_next_departure) == t_next_arrival <= t_next_departure

\* The if/elif chain that picks the current event: an arrival ...
next_is_arrival ==
    IF has_arrival /\ service_pq # <<>>
    THEN arrival_first(At(arrival_times, idx_next_arrival), service_pq[1].t)
    ELSE has_arrival

\* ... or a departure; with neither, the loop breaks.
next_is_departure == ~next_is_arrival /\ service_pq # <<>>

\* Mutant of isBalk: the line may grow one past capacity.
isBalk_exceeds(line, cap) == Len(line) > cap

\* Mutant of isBalk: capacity bounds line + service instead of the line.
isBalk_system(line, cap) == Len(line) + Len(service_pq) >= cap

\* Arrival.act: `len(simulation.line_pq) >= simulation.capacity`
isBalk(line, cap) == Len(line) >= cap

\* Mutant of balk_slots: a balk writes a single slot.
balk_slots_one == 2 - 1

\* Mutant of balk_slots: a balk writes three slots.
balk_slots_three == 2 + 1

\* `for j in range(2)`: the log slots a balk writes
balk_slots == 2

\* Mutant of spots_open: one server slot too few.
spots_open_one_less(service) == nservers - Len(service) - 1

spots_open(service) == nservers - Len(service)

\* Mutant of t_departure: service is counted from the customer's arrival
\* instead of from the event that admits it.
t_departure_from_arrival(event, arrival) ==
    arrival.t + At(service_times, arrival.customer_idx)

\* `t_departure = event.t + self.service_times[arrival.customer_idx]`
t_departure(event, arrival) == event.t + At(service_times, arrival.customer_idx)

\* Mutant of occupancy: the waiting line is left out of the count.
occupancy_service_only(service, line) == Len(service)

\* `len(self.service_pq) + len(self.line_pq)`
occupancy(service, line) == Len(service) + Len(line)

\* The tail of a loop pass whose event.act returned False: move at most one
\* waiting customer into service, then record the event.
admit_and_record(event, service, line) ==
    LET can     == spots_open(service) > 0 /\ line # <<>>
        arrival == heappop_item(line)
        td      == t_departure(event, arrival)
        service2 == IF can
                    THEN heappush(service, Departure(td, arrival.customer_idx))
                    ELSE service
        line2    == IF can THEN heappop_rest(line) ELSE line
    IN  /\ service_pq' = service2
        /\ line_pq' = line2
        /\ departure_times' = IF can
                              THEN Put(departure_times, arrival.customer_idx, td)
                              ELSE departure_times
        /\ entered' = IF can THEN entered \cup {arrival.customer_idx} ELSE entered
        /\ t' = Put(t, event_no, event.t)
        /\ states' = Put(states, event_no, occupancy(service2, line2))
        /\ event_no' = event_no + 1

\* Mutant of balk_act: the arrival is pushed onto the line before the balk
\* test instead of in its else branch.
balk_act_enqueues(event) ==
    LET hit(k) == k - 1 >= event_no /\ k - 1 < event_no + 2
    IN  /\ balk' = Put(balk, idx_next_arrival, TRUE)
        /\ departure_times' = Put(departure_times, idx_next_arrival, event.t)
        /\ line_pq' = heappush(line_pq, event)
        /\ idx_next_arrival' = idx_next_arrival + 1
        /\ balkEventMask' = [k \in 1..(2 * narrivals) |->
                                IF hit(k) THEN TRUE ELSE balkEventMask[k]]
        /\ t' = [k \in 1..(2 * narrivals) |-> IF hit(k) THEN event.t ELSE t[k]]
        /\ states' = [k \in 1..(2 * narrivals) |-> IF hit(k) THEN capacity ELSE states[k]]
        /\ event_no' = event_no + 2
        /\ UNCHANGED <<pc, exc, service_pq, entered, departed>>

\* Arrival.act on a full line: mark the customer, then write balk_slots log
\* slots.  A write at an index >= 2 * narrivals raises IndexError (numpy).
balk_act(event) ==
    LET room   == 2 * narrivals - event_no
        n_ok   == IF balk_slots <= room THEN balk_slots ELSE room
        hit(k) == k - 1 >= event_no /\ k - 1 < event_no + n_ok
    IN  /\ balk' = Put(balk, idx_next_arrival, TRUE)
        /\ departure_times' = Put(departure_times, idx_next_arrival, event.t)
        /\ idx_next_arrival' = idx_next_arrival + 1
        /\ balkEventMask' = [k \in 1..(2 * narrivals) |->
                                IF hit(k) THEN TRUE ELSE balkEventMask[k]]
        /\ t' = [k \in 1..(2 * narrivals) |-> IF hit(k) THEN event.t ELSE t[k]]
        /\ states' = [k \in 1..(2 * narrivals) |-> IF hit(k) THEN capacity ELSE states[k]]
        /\ event_no' = event_no + n_ok
        /\ IF n_ok < balk_slots
           THEN pc' = "raised" /\ exc' = "IndexError"
           ELSE pc' = "sim" /\ exc' = exc
        /\ UNCHANGED <<service_pq, line_pq, entered, departed>>

\* A loop pass whose event is the next arrival.
arrival_event ==
    /\ pc = "sim"
    /\ loop_guard
    /\ next_is_arrival
    /\ LET event == Arrival(At(arrival_times, idx_next_arrival), idx_next_arrival)
       IN  IF isBalk(line_pq, capacity)
           THEN balk_act(event)
           ELSE /\ idx_next_arrival' = idx_next_arrival + 1
                /\ admit_and_record(event, service_pq, heappush(line_pq, event))
                /\ UNCHANGED <<pc, exc, balk, balkEventMask, departed>>
    /\ UNCHANGED <<cfgvars, tracevars, outvars>>

\* A loop pass whose event is the earliest departure (Event.act returns False).
departure_event ==
    /\ pc = "sim"
    /\ loop_guard
    /\ next_is_departure
    /\ LET event == heappop_item(service_pq)
       IN  /\ departed' = departed \cup {event.customer_idx}
           /\ admit_and_record(event, heappop_rest(service_pq), line_pq)
    /\ UNCHANGED <<pc, exc, cfgvars, tracevars, outvars, balk, balkEventMask, idx_next_arrival>>

\* The loop ends: the guard fails, or no event is left (`break`).
loop_exit ==
    /\ pc = "sim"
    /\ ~(loop_guard /\ (next_is_arrival \/ next_is_departure))
    /\ pc' = "exited"
    /\ UNCHANGED <<exc, cfgvars, tracevars, statvars, simvars, outvars>>

\* ----------------------------------------------------------- write_stats
\* seq[np.logical_not(mask)]: the entries of seq whose mask entry is false
RECURSIVE masked_upto(_, _, _)
masked_upto(seq, mask, n) ==
    IF n = 0 THEN <<>>
    ELSE IF mask[n] THEN masked_upto(seq, mask, n - 1)
    ELSE Append(masked_upto(seq, mask, n - 1), seq[n])

masked(seq, mask) == masked_upto(seq, mask, Len(seq))

\* The whole log arrays, balk entries removed (no trimming to event_no).
customer_times  == masked(t, balkEventMask)
customer_states == masked(states, balkEventMask)

\* np.diff
diff(seq) == [k \in 1..(Len(seq) - 1) |-> seq[k + 1] - seq[k]]

RECURSIVE sum_upto(_, _)
sum_upto(seq, n) == IF n = 0 THEN 0 ELSE sum_upto(seq, n - 1) + seq[n]

\* np.sum(interval_lengths[customer_states[:-1] == i]): each interval counts
\* for the state recorded at its earlier end
time_in_state(i) ==
    LET interval_lengths == diff(customer_times)
        picked == [k \in 1..Len(interval_lengths) |->
                      IF customer_states[k] = i THEN interval_lengths[k] ELSE 0]
    IN  sum_upto(picked, Len(picked))

\* Mutant of idle_before_first: the last retained time is added instead.
idle_before_first_last(times) == times[Len(times)]

\* `cum_state[0] += customer_times[0]`: the time up to the first retained event
idle_before_first(times) == times[1]

\* (self.departure_times - self.arrival_times)[np.logical_not(self.balk)]
wait_times ==
    masked([i \in 1..narrivals |-> departure_times[i] - arrival_times[i]], balk)

\* write_stats.  customer_times[0] raises IndexError when no entry is
\* retained.  stationary = cum_state / t_total and the mean and deviation of
\* wait are quotients numpy evaluates without raising (nan or inf, with a
\* warning, on a zero divisor or an empty array); the model keeps the
\* dividend and the divisor.
write_stats ==
    /\ pc = "exited"
    /\ IF customer_times = <<>>
       THEN /\ pc' = "raised"
            /\ exc' = "IndexError"
            /\ cum_state' = [i \in 1..max_record |-> time_in_state(i - 1)]
            /\ UNCHANGED <<t_total, wait>>
       ELSE /\ pc' = "done"
            /\ exc' = exc
            /\ cum_state' = [i \in 1..max_record |->
                                time_in_state(i - 1)
                                  + (IF i = 1 THEN idle_before_first(customer_times) ELSE 0)]
            /\ t_total' = customer_times[Len(customer_times)]
            /\ wait' = wait_times
    /\ UNCHANGED <<cfgvars, tracevars, statvars, simvars>>

Next ==
    \/ pregen_draw
    \/ pregen_finish
    \/ sim_init
    \/ arrival_event
    \/ departure_event
    \/ loop_exit
    \/ write_stats

Spec == Init /\ [][Next]_vars

\* sim() is sequential code: each step of pregen and of the event loop that
\* can be taken is eventually taken.  The event loop reads neither max_record
\* nor t_lim (every trace of a shorter horizon is also a trace of the longest
\* one), so the fair runs are taken at one value of each.
engine_step ==
    \/ pregen_draw
    \/ pregen_finish
    \/ sim_init
    \/ arrival_event
    \/ departure_event
    \/ loop_exit

FairInit == Init /\ max_record = 1 /\ t_lim = MaxTLim
FairSpec == FairInit /\ [][Next]_vars /\ WF_vars(engine_step)

\* The event engine alone, on a given trace: the state in which pregen() has
\* returned a non-empty, strictly increasing arrival trace and its service
\* durations, with a valid configuration.
increasing_seqs(n) ==
    {a \in UNION {[1..len -> 1..n] : len \in 1..n} :
        \A k \in 1..(Len(a) - 1) : a[k] < a[k + 1]}

EngineInit ==
    /\ pc = "init"
    /\ exc = ""
    /\ nservers \in 1..EngineServers
    /\ capacity \in 0..MaxCap
    /\ t_lim = EngineArrivals + 1
    /\ max_record = 1
    /\ tclock = t_lim
    /\ arrival_times \in increasing_seqs(EngineArrivals)
    /\ narrivals = Len(arrival_times)
    /\ service_times \in [1..narrivals -> 0..EngineDur]
    /\ departure_times = <<>>
    /\ t = <<>>
    /\ states = <<>>
    /\ balk = <<>>
    /\ balkEventMask = <<>>
    /\ idx_next_arrival = 0
    /\ service_pq = <<>>
    /\ line_pq = <<>>
    /\ event_no = 0
    /\ cum_state = <<>>
    /\ t_total = 0
    /\ wait = <<>>
    /\ entered = {}
    /\ departed = {}

EngineNext ==
    \/ sim_init
    \/ arrival_event
    \/ departure_event
    \/ loop_exit
    \/ write_stats

EngineSpec == EngineInit /\ [][EngineNext]_vars

\* ------------------------------------------------------------- type check
TypeOK ==
    /\ pc \in {"pregen", "hstack", "init", "sim", "exited", "done", "raised"}
    /\ exc \in {"", "ValueError", "IndexError"}
    /\ idx_next_arrival \in 0..narrivals
    /\ event_no \in Nat

\* ----------------------------------------------------------------- claims
balked == {i \in 0..(narrivals - 1) : balk # <<>> /\ At(balk, i)}
in_service == {service_pq[k].customer_idx : k \in 1..Len(service_pq)}
in_line    == {line_pq[k].customer_idx : k \in 1..Len(line_pq)}

\* C1: with nservers >= 1 the event loop, once entered, exits, and at the exit
\* no arrival is pending, nobody is in service and nobody waits in line.
C1_LoopTerminatesEmpty ==
    (pc = "sim" /\ nservers >= 1)
        ~> (/\ pc = "exited"
            /\ idx_next_arrival = narrivals
            /\ service_pq = <<>>
            /\ line_pq = <<>>)

\* C1 witness: a finished run in which customers were served, waited and balked.
C1_Witness ==
    /\ pc = "exited"
    /\ nservers >= 1
    /\ departed # {}
    /\ balked # {}
    /\ idx_next_arrival = narrivals /\ service_pq = <<>> /\ line_pq = <<>>

C3_LogBounded ==
    /\ event_no <= 2 * narrivals
    /\ ~(exc = "IndexError" /\ cum_state = <<>>)
    /\ \A k \in 1..Len(states) : states[k] >= 0

\* C3 witness: the last customer balked and its pair filled the last two slots.
C3_Witness ==
    /\ pc = "sim"
    /\ narrivals >= 2
    /\ event_no = 2 * narrivals
    /\ At(balk, narrivals - 1)
    /\ At(balkEventMask, 2 * narrivals - 1)
    /\ At(states, 2 * narrivals - 1) = capacity

\* A loop pass that recorded one non-balk entry, at log index event_no.
recorded_step  == pc = "sim" /\ event_no' = event_no + 1
admitted_step  == recorded_step /\ idx_next_arrival' = idx_next_arrival + 1
departure_step == recorded_step /\ idx_next_arrival' = idx_next_arrival

\* Occupancy recorded by the entry just before log index n (0 for the first).
prev_occupancy(n) == IF n = 0 THEN 0 ELSE At(states, n - 1)

\* Occupancy recorded by the latest non-balk entry before log index n (0 if none).
RECURSIVE prev_retained_occupancy(_)
prev_retained_occupancy(n) ==
    IF n = 0 THEN 0
    ELSE IF At(balkEventMask, n - 1) THEN prev_retained_occupancy(n - 1)
    ELSE At(states, n - 1)

\* C4 (as stated): a non-balk entry records the occupancy of the previous log
\* entry plus 1 (admitted arrival) or minus 1 (departure).
C4_PrevEntryStep ==
    [][/\ admitted_step => At(states', event_no) = prev_occupancy(event_no) + 1
       /\ departure_step => At(states', event_no) = prev_occupancy(event_no) - 1]_vars

\* C4 (amended): a non-balk entry records the occupancy of the previous
\* non-balk entry (0 if there is none) plus 1 (admitted arrival) or minus 1
\* (departure); balk entries in between are skipped.
C4_PrevRetainedStep ==
    [][/\ admitted_step =>
            At(states', event_no) = prev_retained_occupancy(event_no) + 1
       /\ departure_step =>
            At(states', event_no) = prev_retained_occupancy(event_no) - 1]_vars

\* C4 witness: a non-balk entry was recorded right after a balk pair whose
\* recorded occupancy (capacity) is not the true one.
C4_Witness ==
    \E k \in 1..(event_no - 1) :
        /\ balkEventMask[k]
        /\ ~balkEventMask[k + 1]
        /\ states[k + 1] # states[k] - 1
        /\ states[k + 1] # states[k] + 1

\* The balked customers in arrival order, and the balk-flagged log indices
\* (0-based) in log order.
RECURSIVE sorted_seq(_)
sorted_seq(S) ==
    IF S = {} THEN <<>>
    ELSE LET m == CHOOSE x \in S : \A y \in S : x <= y
         IN  <<m>> \o sorted_seq(S \ {m})

flagged == {k \in 0..(Len(balkEventMask) - 1) : At(balkEventMask, k)}

\* C5: balk entries come in pairs: the j-th balked customer owns the (2j-1)-th
\* and 2j-th flagged entries, which are consecutive, both carry its arrival
\* time and occupancy = capacity; so flagged entries = 2 * balked customers.
C5_BalkPairs ==
    LET b == sorted_seq(balked)
        f == sorted_seq(flagged)
    IN  /\ Len(f) = 2 * Len(b)
        /\ \A j \in 1..Len(b) :
              /\ f[2 * j] = f[2 * j - 1] + 1
              /\ f[2 * j] < event_no
              /\ At(t, f[2 * j - 1]) = At(arrival_times, b[j])
              /\ At(t, f[2 * j]) = At(arrival_times, b[j])
              /\ At(states, f[2 * j - 1]) = capacity
              /\ At(states, f[2 * j]) = capacity

\* C5 witness: a balk pair lies between two non-balk entries of the log.
C5_Witness ==
    /\ balked # {}
    /\ \E k \in flagged :
          /\ k >= 1 /\ k - 1 \notin flagged
          /\ k + 1 \in flagged
          /\ k + 2 < event_no /\ k + 2 \notin flagged

\* The customer of the arrival a loop pass processes.
arrival_step == pc = "sim" /\ idx_next_arrival' = idx_next_arrival + 1

\* C6: an arriving customer balks exactly when the line already holds
\* `capacity` customers, whatever the number in service; otherwise it is put
\* on the line (from where the same pass may move the line's head into service).
C6_BalkIffLineFull ==
    [][arrival_step =>
         LET c == idx_next_arrival
         IN  IF Len(line_pq) = capacity
             THEN /\ At(balk', c)
                  /\ c \notin in_line' /\ c \notin in_service'
             ELSE /\ ~At(balk', c)
                  /\ c \in in_line' \cup in_service'
                  /\ Len(line_pq') + Len(service_pq')
                       = Len(line_pq) + Len(service_pq) + 1]_vars

\* C6 witness: a customer balked on a full line, and a customer waits in
\* line behind busy servers, the system holding more than `capacity` in all.
C6_Witness ==
    /\ balked # {}
    /\ line_pq # <<>>
    /\ Len(service_pq) = nservers
    /\ nservers + Len(line_pq) > capacity

\* A loop pass that processed a balk.
balk_step == pc = "sim" /\ balk' # balk

\* C7: a balk changes only the customer's record (flag, departure time = its
\* arrival time), the next-arrival index (+1) and the log (+2 entries); line
\* and service are untouched, nobody is admitted; a balked customer is never
\* in the line or in service and its record is never written again.
C7_BalkFrame ==
    [][/\ balk_step =>
            LET c == idx_next_arrival
            IN  /\ balk' = Put(balk, c, TRUE)
                /\ departure_times' = Put(departure_times, c, At(arrival_times, c))
                /\ idx_next_arrival' = idx_next_arrival + 1
                /\ event_no' = event_no + 2
                /\ line_pq' = line_pq
                /\ service_pq' = service_pq
                /\ entered' = entered
                /\ departed' = departed
       /\ \A c \in balked :
            /\ At(balk', c)
            /\ At(departure_times', c) = At(departure_times, c)
            /\ c \notin in_line' /\ c \notin in_service' /\ c \notin entered']_vars

\* C7 witness: a customer balked while others waited and were served, and the
\* run went on to admit a waiting customer afterwards.
C7_Witness ==
    /\ pc = "exited"
    /\ \E c \in balked : \E d \in entered : d < c /\ At(departure_times, d) > At(arrival_times, c)

\* C8 (as stated): with nservers = 1 and capacity = 0 an arriving customer
\* balks exactly when the server is busy, and is served when it is idle (so the
\* balk count is the number of arrivals that find the server occupied).
C8_BalkIffServerBusy ==
    [][(arrival_step /\ nservers = 1 /\ capacity = 0) =>
         LET c == idx_next_arrival
         IN  /\ At(balk', c) <=> service_pq # <<>>
             /\ service_pq = <<>> => c \in entered']_vars

\* Completion times of the customers in service.
service_ts == {service_pq[k].t : k \in 1..Len(service_pq)}
t_min_departure == CHOOSE m \in service_ts : \A x \in service_ts : m <= x

\* C9: in every loop pass the event is the next arrival if its time is <= the
\* minimum completion time in service (or nobody is in service), the
\* departure with that minimum time otherwise; with neither the loop ends.  On
\* a tie the arrival goes first and everyone in service stays in service.
C9_TieBreak ==
    [][(pc = "sim" /\ loop_guard) =>
         LET ta      == At(arrival_times, idx_next_arrival)
             arr_due == has_arrival /\ (service_pq = <<>> \/ ta <= t_min_departure)
             dep_due == service_pq # <<>> /\ (~has_arrival \/ ta > t_min_departure)
         IN  /\ arr_due =>
                  /\ idx_next_arrival' = idx_next_arrival + 1
                  /\ At(t', event_no) = ta
                  /\ departed' = departed
                  /\ in_service \subseteq in_service'
             /\ dep_due =>
                  /\ idx_next_arrival' = idx_next_arrival
                  /\ At(t', event_no) = t_min_departure
                  /\ \E k \in 1..Len(service_pq) :
                        /\ service_pq[k].t = t_min_departure
                        /\ departed' = departed \cup {service_pq[k].customer_idx}
                        /\ service_pq[k].customer_idx \notin in_service'
             /\ (~arr_due /\ ~dep_due) => pc' = "exited"]_vars

\* C9 witness: an arrival was processed at the very time at which an earlier
\* customer, still in service, completes.
C9_Witness ==
    /\ pc = "sim"
    /\ idx_next_arrival >= 2
    /\ \E k \in 1..Len(service_pq) :
          /\ service_pq[k].t = At(arrival_times, idx_next_arrival - 1)
          /\ service_pq[k].customer_idx < idx_next_arrival - 1
          /\ At(t, event_no - 1) = service_pq[k].t

\* C10: the emitted log entries, balk entries included, are in non-decreasing
\* time order.
C10_LogTimeOrdered ==
    \A k \in 1..(event_no - 1) : t[k] <= t[k + 1]

\* C10 witness: a finished log holding a balk pair and non-balk neighbours
\* with equal times as well as with increasing times.
C10_Witness ==
    /\ pc = "exited"
    /\ event_no >= 6
    /\ flagged # {}
    /\ \E k \in 1..(event_no - 1) : t[k] < t[k + 1] /\ ~balkEventMask[k] /\ ~balkEventMask[k + 1]
    /\ \E k \in 1..(event_no - 1) : t[k] = t[k + 1] /\ ~balkEventMask[k] /\ ~balkEventMask[k + 1]

\* C11: the in-service set never holds more than nservers customers and the
\* waiting line never more than capacity customers.
C11_SizesBounded ==
    /\ Len(service_pq) <= nservers
    /\ Len(line_pq) <= capacity
    /\ Len(service_pq) + Len(line_pq) <= nservers + capacity

\* C11 witness: all servers busy, the line full, and a customer turned away.
C11_Witness ==
    /\ nservers >= 1 /\ Len(service_pq) = nservers
    /\ capacity >= 1 /\ Len(line_pq) = capacity
    /\ balked # {}

\* C12: between loop passes (nservers >= 1) no server slot is free while a
\* customer waits in line, although a pass admits at most one customer.
C12_NoIdleServerWithLine ==
    (nservers >= 1) => ~(nservers - Len(service_pq) > 0 /\ line_pq # <<>>)

\* C12 witness: a customer that had to wait was admitted at a departure and
\* another one is still waiting behind busy servers.
C12_Witness ==
    /\ nservers >= 1
    /\ line_pq # <<>>
    /\ Len(service_pq) = nservers
    /\ \E c \in entered \cap in_service :
          At(departure_times, c) > At(arrival_times, c) + At(service_times, c)

\* C13: the line is FIFO: the customer a pass moves into service has the
\* smallest arrival index of all customers waiting, every customer still in
\* line afterwards has a larger index, and every earlier non-balked customer
\* has entered service before it.
C13_FIFO ==
    [][(pc = "sim" /\ entered' # entered) =>
         \E c \in entered' \ entered :
            /\ entered' = entered \cup {c}
            /\ \A d \in in_line : c <= d
            /\ \A d \in in_line' : c < d
            /\ \A d \in 0..(c - 1) : At(balk, d) \/ d \in entered]_vars

\* C13 witness: of two customers waiting in line, the earlier one has been
\* moved into service and the later one still waits.
C13_Witness ==
    /\ pc = "sim"
    /\ \E c \in in_service : \E d \in in_line :
          /\ c < d
          /\ At(arrival_times, c) < At(departure_times, c) - At(service_times, c)
          /\ At(arrival_times, d) <= At(departure_times, c) - At(service_times, c)

\* C14 (as stated): when no arrival falls before t_lim (N = 0) the run does
\* not raise.
C14_EmptyTraceNoRaise ==
    (pc # "pregen" /\ arrival_times = <<>>) => pc # "raised"

\* C15 (as stated): when a run with N >= 1 ends with every customer balked
\* (no retained log entry, no non-balked customer) write_stats does not raise.
C15_AllBalkedNoRaise ==
    (narrivals >= 1 /\ Cardinality(balked) = narrivals) => pc # "raised"

\* C16 (as stated): a configuration with nservers <= 0 is rejected before the
\* simulation: no event is processed, no log entry written, nobody enqueued.
C16_InvalidConfigRejected ==
    (nservers <= 0) =>
        /\ pc \notin {"sim", "exited", "done"}
        /\ idx_next_arrival = 0
        /\ event_no = 0
        /\ line_pq = <<>>

C19_LogFullAtExit ==
    (pc \in {"exited", "done"} /\ nservers >= 1) =>
        /\ event_no = 2 * narrivals
        /\ Cardinality(flagged) = 2 * Cardinality(balked)
        /\ event_no - Cardinality(flagged) = 2 * Cardinality(departed)
        /\ Len(customer_times) = 2 * Cardinality(departed)

\* C19 witness: a finished run with served and balked customers.
C19_Witness ==
    /\ pc = "done"
    /\ nservers >= 1
    /\ event_no = 2 * narrivals
    /\ balked # {} /\ Cardinality(departed) >= 2

\* The occupancies of the emitted non-balk entries, in log order.
retained_states ==
    masked(SubSeq(states, 1, event_no), SubSeq(balkEventMask, 1, event_no))

\* C20: with the balk entries deleted, the emitted entries start at occupancy
\* 1, neighbours differ by exactly 1 up or down, and during the loop the last
\* one is the true occupancy len(service_pq) + len(line_pq), however many balk
\* pairs lie in between.
C20_RetainedOccupancy ==
    LET r == retained_states
    IN  /\ r # <<>> => r[1] = 1
        /\ \A k \in 1..(Len(r) - 1) : r[k + 1] - r[k] \in {1, -1}
        /\ pc = "sim" =>
              Len(service_pq) + Len(line_pq) = (IF r = <<>> THEN 0 ELSE r[Len(r)])

\* C20 witness: a departure recorded after a balk pair that followed another
\* non-balk entry, the loop still running.
C20_Witness ==
    /\ pc = "sim"
    /\ service_pq # <<>>
    /\ \E k \in flagged :
          /\ k >= 1 /\ k - 1 \notin flagged
          /\ k + 2 < event_no /\ k + 2 \notin flagged
          /\ At(states, k + 2) = At(states, k - 1) - 1

\* C18 (as stated): a departure removes a customer whose completion time is
\* the minimum in service, and among several with that minimum time the one
\* with the smallest customer index.
C18_MinThenSmallestIndex ==
    [][(pc = "sim" /\ departed' # departed) =>
         \E k \in 1..Len(service_pq) :
            /\ departed' = departed \cup {service_pq[k].customer_idx}
            /\ service_pq[k].t = t_min_departure
            /\ \A j \in 1..Len(service_pq) :
                  service_pq[j].t = t_min_departure
                      => service_pq[k].customer_idx <= service_pq[j].customer_idx]_vars

====
